---- MODULE Spec2Model ----
(***************************************************************************)
(* Genesis-Melodies: the verse-selection / dense-search page               *)
(* (avraham-dense: src/unnamed/part_006) and the embedding adapter         *)
(* (src/unnamed/part_003), as state machines.                              *)
(*                                                                         *)
(* Strings of the page that are parsed or compared by the code are         *)
(* sequences of tokens, so that JSON.stringify / JSON.parse and the        *)
(* "chapter:verse" keys are conversions and not identities.                *)
(***************************************************************************)
EXTENDS Integers, Sequences, FiniteSets, TLC

VARIABLES
    \* ---- the page (part_006) ----
    densePage,          \* isDensePage(): fixed by the HTML that loaded the script
    modelOptions,       \* <option> values of #model_name
    levelOptions,       \* <option> values of #record_level
    textVisuals,        \* let textVisuals (loaded from scripts/text_visuals.json)
    currentVisualIndex, \* let currentVisualIndex (0-based as in the code)
    selectedVerses,     \* let selectedVerses = new Set(): keys in insertion order
    checked,            \* checkbox.checked of the items of #verse-list, by position
    modelName,          \* #model_name .value
    recordLevel,        \* #record_level .value
    topK,               \* #top_k .value
    search_verses,      \* #search_verses .value (a text)
    searchButton,       \* #search_button: disabled, title
    clearVersesDisabled,\* #clear_verses_button .disabled
    container,          \* #results_container .innerHTML, as a sequence of blocks
    inflight,           \* fetches of performSearch that have not settled yet
    lastResponse,       \* the response (or failure) of the fetch that settled last
    currentResults,     \* let currentResults
    resultRatings,      \* let resultRatings
    feedbackSubmitted,  \* let feedbackSubmitted
    isSubmitting,       \* let isSubmitting
    db,                 \* let db: TRUE when firebase.firestore() was available
    submitBtn,          \* #submit-feedback-btn of the results container
    submitButtonHandler,\* let submitButtonHandler: TRUE when it is not null
    saves,              \* db.collection('SearchFeedback').add(...) not settled yet
    feedbackDocs,       \* the documents of the collection SearchFeedback
    searchSeq,          \* history: the number the last search was started under
    reqId,              \* history: the number of the search of each fetch
    shownSearch,        \* history: the search whose results are in currentResults
    audioPlayer,        \* #audio-player: src, paused, currentTime, readyState
    audioContainer,     \* #audio-player-container .style.display
    currentAudioFile,   \* let currentAudioFile
    leftPanel,          \* #left-panel .style: display, width
    rightPanel,         \* #right-panel .style: display, width
    resizer,            \* #resizer .style.display
    leftRestore,        \* the .left-restore button: .style.display
    rightRestore,       \* the .right-restore button: .style.display
    isFullScreen,       \* let isFullScreen
    navColumn,          \* #nav-column .style.display
    verseColumn,        \* #verse-selection-column .style.display
    versesStr,          \* formatVerses: the array it is called with
    formatted,          \* formatVerses: the string it returned (<<>>: '')
    \* ---- the embedding adapter (part_003) ----
    modelCache,         \* const modelCache: the model keys that are cached
    pipelineInits,      \* how often pipeline() built a model, per model key
    calls               \* the generateEmbedding calls of the process

pageVars == <<densePage, modelOptions, levelOptions, textVisuals,
              currentVisualIndex, selectedVerses, checked, modelName,
              recordLevel, topK, search_verses, searchButton,
              clearVersesDisabled, container, inflight, lastResponse,
              currentResults,
              resultRatings, feedbackSubmitted, isSubmitting,
              db, submitBtn, submitButtonHandler, saves, feedbackDocs,
              searchSeq, reqId, shownSearch,
              audioPlayer, audioContainer, currentAudioFile,
              leftPanel, rightPanel, resizer, leftRestore, rightRestore,
              isFullScreen, navColumn, verseColumn, versesStr, formatted>>
feedbackVars == <<submitBtn, submitButtonHandler, saves, feedbackDocs>>
historyVars == <<searchSeq, reqId, shownSearch>>
audioVars == <<audioPlayer, audioContainer, currentAudioFile>>
panelVars == <<leftPanel, rightPanel, resizer, leftRestore, rightRestore,
               isFullScreen, navColumn, verseColumn>>
formatVars == <<versesStr, formatted>>
embedVars == <<modelCache, pipelineInits, calls>>
vars == <<pageVars, embedVars>>

Range(s) == {s[i] : i \in 1..Len(s)}

(***************************************************************************)
(* Verses, keys and the text of the search_verses field                    *)
(***************************************************************************)
Verse(c, v) == [chapter |-> c, verse |-> v]

\* `${chapter}:${verse}`
verseKey(chapter, verse) == <<chapter, ":", verse>>

\* const [chapter, verse] = key.split(':'); { parseInt(chapter), parseInt(verse) }
parseKey(key) == [chapter |-> key[1], verse |-> key[3]]

\* the comparator of both sorts: chapter first, then verse
compareVerses(a, b) ==
    IF a.chapter # b.chapter THEN a.chapter - b.chapter ELSE a.verse - b.verse

RECURSIVE insertSorted(_, _)
insertSorted(x, s) ==
    IF s = <<>> THEN <<x>>
    ELSE IF compareVerses(x, Head(s)) < 0 THEN <<x>> \o s
    ELSE <<Head(s)>> \o insertSorted(x, Tail(s))

\* Array.prototype.sort with compareVerses (stable)
RECURSIVE sortVerses(_)
sortVerses(s) ==
    IF s = <<>> THEN <<>>
    ELSE insertSorted(s[Len(s)], sortVerses(SubSeq(s, 1, Len(s) - 1)))

(***************************************************************************)
(* formatVerses: a string is the sequence of its numbers and separators    *)
(***************************************************************************)
\* the for loop of formatVerses: groups of consecutive verses, given the
\* sorted verseObjs from index i on and the groups so far (the last one is
\* currentGroup)
RECURSIVE groupConsecutive(_, _, _)
groupConsecutive(verseObjs, i, groups) ==
    IF i > Len(verseObjs) THEN groups
    ELSE LET prev == verseObjs[i - 1]
             curr == verseObjs[i]
             isConsecutive == prev.chapter = curr.chapter
                              /\ curr.verse = prev.verse + 1
             n == Len(groups)
         IN groupConsecutive(verseObjs, i + 1,
               IF isConsecutive
               THEN [groups EXCEPT ![n] = Append(@, curr)]
               ELSE Append(groups, <<curr>>))

\* the text of one group: 'c:v' or 'c:first-last'
formatGroup(group) ==
    IF Len(group) = 1
    THEN <<group[1].chapter, ":", group[1].verse>>
    ELSE <<group[1].chapter, ":", group[1].verse, "-", group[Len(group)].verse>>

\* Array.prototype.join(', ') of the texts of the groups
RECURSIVE joinGroups(_)
joinGroups(groups) ==
    IF groups = <<>> THEN <<>>
    ELSE IF Len(groups) = 1 THEN formatGroup(groups[1])
    ELSE formatGroup(groups[1]) \o <<", ">> \o joinGroups(Tail(groups))

\* a bug: the verses are grouped in the order they come in
formatVersesUnsorted(verses) ==
    IF Len(verses) = 0 THEN <<>>
    ELSE joinGroups(groupConsecutive(verses, 2, <<<<verses[1]>>>>))

\* formatVerses(versesStr) for an array of {chapter, verse} with numbers
formatVerses(verses) ==
    IF Len(verses) = 0 THEN <<>>
    ELSE LET verseObjs == sortVerses(verses)
         IN joinGroups(groupConsecutive(verseObjs, 2, <<<<verseObjs[1]>>>>))

\* tokens of a JSON text
Punct(t) == [t |-> t, chapter |-> 0, verse |-> 0]
ObjTok(v) == [t |-> "verse", chapter |-> v.chapter, verse |-> v.verse]
LBracket == Punct("[")
RBracket == Punct("]")
Comma == Punct(",")
LBrace == Punct("{")
RBrace == Punct("}")

RECURSIVE stringifyItems(_)
stringifyItems(arr) ==
    IF arr = <<>> THEN <<>>
    ELSE IF Len(arr) = 1 THEN <<ObjTok(arr[1])>>
    ELSE <<ObjTok(arr[1]), Comma>> \o stringifyItems(Tail(arr))

\* JSON.stringify(versesArray, null, 2)
JSONstringify(arr) == <<LBracket>> \o stringifyItems(arr) \o <<RBracket>>

\* the items between the brackets: verse objects separated by commas
itemsWellFormed(inner) ==
    /\ Len(inner) % 2 = 1
    /\ \A i \in 1..Len(inner) :
          IF i % 2 = 1 THEN inner[i].t = "verse" ELSE inner[i] = Comma

\* JSON.parse(text): ok = FALSE when it throws
JSONparse(text) ==
    IF text = <<LBrace, RBrace>>
    THEN [ok |-> TRUE, isArray |-> FALSE, value |-> <<>>]
    ELSE IF Len(text) >= 2 /\ text[1] = LBracket /\ text[Len(text)] = RBracket
    THEN LET inner == SubSeq(text, 2, Len(text) - 1) IN
         IF inner = <<>>
         THEN [ok |-> TRUE, isArray |-> TRUE, value |-> <<>>]
         ELSE IF itemsWellFormed(inner)
         THEN [ok |-> TRUE, isArray |-> TRUE,
               value |-> [i \in 1..((Len(inner) + 1) \div 2) |->
                            Verse(inner[2 * i - 1].chapter, inner[2 * i - 1].verse)]]
         ELSE [ok |-> FALSE, isArray |-> FALSE, value |-> <<>>]
    ELSE [ok |-> FALSE, isArray |-> FALSE, value |-> <<>>]

(***************************************************************************)
(* The compatibility matrix and the Search button                          *)
(***************************************************************************)
VALID_COMBINATIONS ==
    [pericope           |-> <<"hebrew_st", "english_st">>,
     verse              |-> <<"hebrew_st", "berit", "english_st">>,
     agentic_berit      |-> <<"berit", "hebrew_st", "english_st">>,
     agentic_hebrew_st  |-> <<"hebrew_st", "english_st">>,
     agentic_english_st |-> <<"hebrew_st", "english_st">>]

\* VALID_COMBINATIONS[recordLevel] || []
validModelsFor(level) ==
    IF level \in DOMAIN VALID_COMBINATIONS THEN VALID_COMBINATIONS[level] ELSE <<>>

\* a bug: only the record level is looked up, the model is not
isValidCombinationLevelOnly(model, level) == level \in DOMAIN VALID_COMBINATIONS

\* VALID_COMBINATIONS[recordLevel] && VALID_COMBINATIONS[recordLevel].includes(modelName)
isValidCombination(model, level) ==
    /\ level \in DOMAIN VALID_COMBINATIONS
    /\ model \in Range(VALID_COMBINATIONS[level])

\* a bug: an empty array counts as verses to search
hasVersesAnyArray(text) ==
    LET p == JSONparse(text) IN p.ok /\ p.isArray

\* try { verses = JSON.parse(value); Array.isArray(verses) && verses.length > 0 }
hasVerses(text) ==
    LET p == JSONparse(text) IN p.ok /\ p.isArray /\ Len(p.value) > 0

NoTitle == [text |-> "", level |-> "", models |-> <<>>]
InvalidTitle(level) ==
    [text |-> "Invalid combination. For <level>, valid models are: <models>",
     level |-> level, models |-> validModelsFor(level)]
AddVersesTitle ==
    [text |-> "Please add verses to search", level |-> "", models |-> <<>>]

\* a bug: the title of a rejection does not tell the two causes apart
validateSearchButtonOneTitle(model, level, text) ==
    IF isValidCombination(model, level) /\ hasVerses(text)
    THEN [disabled |-> FALSE, title |-> NoTitle]
    ELSE [disabled |-> TRUE, title |-> AddVersesTitle]

\* a bug: the verses to search are not looked at
validateSearchButtonPairOnly(model, level, text) ==
    IF isValidCombination(model, level)
    THEN [disabled |-> FALSE, title |-> NoTitle]
    ELSE [disabled |-> TRUE, title |-> InvalidTitle(level)]

\* validateSearchButton(): the state it leaves #search_button in
validateSearchButton(model, level, text) ==
    IF isValidCombination(model, level) /\ hasVerses(text)
    THEN [disabled |-> FALSE, title |-> NoTitle]
    ELSE [disabled |-> TRUE,
          title |-> IF ~isValidCombination(model, level) THEN InvalidTitle(level)
                    ELSE AddVersesTitle]

\* updateClearVersesButton(): .disabled
updateClearVersesButton(text) ==
    LET p == JSONparse(text) IN
    IF p.ok THEN ~(p.isArray /\ Len(p.value) > 0)
    ELSE text = <<LBracket, RBracket>> \/ text = <<>>

(***************************************************************************)
(* Verse selection                                                         *)
(***************************************************************************)
\* Set.prototype.add / delete on the insertion-ordered set
setAdd(s, key) == IF key \in Range(s) THEN s ELSE Append(s, key)
setDelete(s, key) == SelectSeq(s, LAMBDA k : k # key)

\* a bug: the array is written in selection order, the sort is left out
updateSearchVersesFieldUnsorted(sel) ==
    JSONstringify([i \in 1..Len(sel) |-> parseKey(sel[i])])

\* updateSearchVersesField(): the text it writes into #search_verses
updateSearchVersesField(sel) ==
    JSONstringify(sortVerses([i \in 1..Len(sel) |-> parseKey(sel[i])]))

\* the verses listed in #verse-list
currentVerses ==
    IF currentVisualIndex >= 0 /\ currentVisualIndex < Len(textVisuals)
    THEN textVisuals[currentVisualIndex + 1].verses ELSE <<>>

\* toggleVerseSelection(chapter, verse, isSelected) on the set
\* a bug: selecting a verse drops the verses selected before
toggleVerseSelectionOnly(sel, v, isSelected) ==
    IF isSelected THEN <<verseKey(v.chapter, v.verse)>>
    ELSE setDelete(sel, verseKey(v.chapter, v.verse))

toggleVerseSelection(sel, v, isSelected) ==
    IF isSelected THEN setAdd(sel, verseKey(v.chapter, v.verse))
    ELSE setDelete(sel, verseKey(v.chapter, v.verse))

(***************************************************************************)
(* top_k as typed, and the results container                               *)
(***************************************************************************)
NaN == [nan |-> TRUE, n |-> 0]
Num(n) == [nan |-> FALSE, n |-> n]

DigitValue == [d \in {"0", "1", "2", "3", "4", "5", "6", "7", "8", "9"} |->
                 CASE d = "0" -> 0 [] d = "1" -> 1 [] d = "2" -> 2 [] d = "3" -> 3
                   [] d = "4" -> 4 [] d = "5" -> 5 [] d = "6" -> 6 [] d = "7" -> 7
                   [] d = "8" -> 8 [] d = "9" -> 9]

\* the value of the longest prefix of digits; -1 when the text starts with no digit
RECURSIVE digitsValue(_, _)
digitsValue(chars, acc) ==
    IF chars = <<>> \/ Head(chars) \notin DOMAIN DigitValue THEN acc
    ELSE digitsValue(Tail(chars),
                     (IF acc < 0 THEN 0 ELSE acc * 10) + DigitValue[Head(chars)])

\* parseInt(text): an optional sign, then the leading digits; NaN without a digit
parseInt(chars) ==
    LET neg == chars # <<>> /\ Head(chars) = "-"
        v == digitsValue(IF neg THEN Tail(chars) ELSE chars, -1)
    IN IF v < 0 THEN NaN ELSE Num(IF neg THEN 0 - v ELSE v)

\* parseInt(document.querySelector("#top_k").value) || 10
DefaultTopK == 10
topKOrDefault(chars) ==
    LET p == parseInt(chars) IN IF p.nan \/ p.n = 0 THEN DefaultTopK ELSE p.n

NoResult == [id |-> 0, score |-> 0, verses |-> <<>>]
Block(kind, text, result, showVerses, showRating) ==
    [kind |-> kind, text |-> text, result |-> result,
     showVerses |-> showVerses, showRating |-> showRating]
Spinner == Block("spinner", "Searching...", NoResult, FALSE, FALSE)
ErrorBlock(msg) == Block("error", msg, NoResult, FALSE, FALSE)
InfoBlock(text) == Block("search-info", text, NoResult, FALSE, FALSE)
NoResultsBlock == Block("no-results", "No results found.", NoResult, FALSE, FALSE)
FeedbackBlock == Block("feedback-section", "Provide Feedback:", NoResult, FALSE, FALSE)
\* the label the page shows a score under (<div class="score">Score: ...),
\* and the field the feedback document stores the same number in
ScoreLabel == "Score"
ScoreField == "distance"
ResultBlock(r, showVerses, showRating) ==
    Block("result-item", ScoreLabel, r, showVerses, showRating)

\* the english_search_text of a response; null and '' are both falsy
NullText == ""

\* a bug: the container is cleared only when there is a text to show
displaySearchInfoKeep(old, englishSearchText) ==
    IF englishSearchText # NullText THEN <<InfoBlock(englishSearchText)>> ELSE old

\* displaySearchInfo(englishSearchText): what it leaves in the container
displaySearchInfo(old, englishSearchText) ==
    IF englishSearchText # NullText THEN <<InfoBlock(englishSearchText)>> ELSE <<>>

\* the top 5 results carry a rating dropdown
TopRated == 5

\* displayResults(results): what it leaves in the container
displayResults(existingInfo, results, level, topKText, dense) ==
    IF Len(results) = 0 THEN existingInfo \o <<NoResultsBlock>>
    ELSE LET showVerses == level = "pericope"
             showFeedback == dense /\ topKOrDefault(topKText) >= TopRated
         IN existingInfo
            \o (IF showFeedback THEN <<FeedbackBlock>> ELSE <<>>)
            \o [i \in 1..Len(results) |->
                  ResultBlock(results[i],
                              showVerses /\ results[i].verses # <<>>,
                              showFeedback /\ (i - 1) < TopRated)]

resultItems(c) == SelectSeq(c, LAMBDA b : b.kind = "result-item")
hasBlock(c, kind) == \E i \in 1..Len(c) : c[i].kind = kind

(***************************************************************************)
(* The feedback section: ratings, #submit-feedback-btn, SearchFeedback     *)
(***************************************************************************)
\* <button id="submit-feedback-btn" disabled>: link is TRUE once it has been
\* turned into 'See Feedback Results', handler is the 'click' listener
NoButton == [exists |-> FALSE, disabled |-> TRUE, link |-> FALSE, handler |-> FALSE]
NewButton == [exists |-> TRUE, disabled |-> TRUE, link |-> FALSE, handler |-> FALSE]

\* the <option> values of a .meditation-rating select
RatingOptions == {<<>>, <<"1", "0">>, <<"5">>, <<"4">>, <<"3">>, <<"2">>, <<"1">>,
                  <<"0">>, <<"-", "1">>}

\* resultRatings[index] = value
setRating(ratings, index, value) ==
    [j \in DOMAIN ratings \cup {index} |-> IF j = index THEN value ELSE ratings[j]]

Min(a, b) == IF a < b THEN a ELSE b

\* resultRatings[index] !== undefined && resultRatings[index] !== ''
isRated(ratings, index) == index \in DOMAIN ratings /\ ratings[index] # <<>>

top5Rated(results, ratings) ==
    \A index \in 0..(Min(TopRated, Len(results)) - 1) : isRated(ratings, index)

\* updateSubmitButtonState(): the state it leaves the button in
updateSubmitButtonState(btn, dense, submitted, handlerSet, results, ratings) ==
    IF ~dense \/ ~btn.exists THEN btn
    ELSE IF submitted
    THEN [btn EXCEPT !.disabled = FALSE, !.link = TRUE,
                     !.handler = IF handlerSet THEN FALSE ELSE @]
    ELSE [btn EXCEPT !.disabled = ~top5Rated(results, ratings)]

\* updateSubmitButtonState(): what it leaves in submitButtonHandler
handlerAfterUpdate(btn, dense, submitted, handlerSet) ==
    IF dense /\ btn.exists /\ submitted THEN FALSE ELSE handlerSet

\* a bug: the ranks are the 0-based indices
rankedEntryZeroBased(results, ratings, i) ==
    [rank |-> i, result |-> results[i + 1], label |-> ScoreField,
     value |-> results[i + 1].score,
     rating |-> IF i \in DOMAIN ratings /\ ratings[i] # <<>>
                THEN parseInt(ratings[i]) ELSE Num(0)]

\* the entry of results_and_ranking for index i (0-based, as in the code)
rankedEntry(results, ratings, i) ==
    [rank |-> i + 1, result |-> results[i + 1], label |-> ScoreField,
     value |-> results[i + 1].score,
     rating |-> IF i \in DOMAIN ratings /\ ratings[i] # <<>>
                THEN parseInt(ratings[i]) ELSE Num(0)]

\* the Firestore document handleFeedbackSubmit builds; search is the history
\* tag of the search whose results it holds
feedbackDoc(search, model, level, topKText, versesText, results, ratings) ==
    [search |-> search, endpoint |-> "dense", model_name |-> model,
     chunking_level |-> level, top_k |-> topKOrDefault(topKText),
     search_verses |-> JSONparse(versesText).value,
     results_and_ranking |->
        [k \in 1..Min(TopRated, Len(results)) |->
            rankedEntry(results, ratings, k - 1)]]

\* the saves whose button was replaced: container.innerHTML was assigned
detach(pending) == [k \in 1..Len(pending) |-> [pending[k] EXCEPT !.btnLive = FALSE]]

removeAt(seq, k) == SubSeq(seq, 1, k - 1) \o SubSeq(seq, k + 1, Len(seq))

(***************************************************************************)
(* The audio player                                                        *)
(***************************************************************************)
\* the length of the audio files, in steps of playback
Duration == 2

\* visual.start_at || 0 (start_at is <<>> when the visual has none)
startAtOrZero(visual) == IF visual.start_at = <<>> THEN 0 ELSE visual.start_at[1]

\* visual.audio_file && visual.audio_file !== ''
hasAudio(visual) == visual.audio_file # ""

\* the element before any file is set
NoAudio == [src |-> "", paused |-> TRUE, currentTime |-> 0, readyState |-> 0,
            onMetadata |-> <<>>]

\* audioPlayer.src = audioPath; audioPlayer.load(): the element is paused,
\* at position 0 and without metadata until 'loadedmetadata'
loadFile(audio, file) ==
    [audio EXCEPT !.src = file, !.paused = TRUE, !.currentTime = 0,
                  !.readyState = 0]

\* addEventListener('loadedmetadata', ..., {once: true}): the listener sets
\* currentTime to seek and, when play is TRUE, calls play()
onceMetadata(audio, seek, play) ==
    [audio EXCEPT !.onMetadata = Append(@, [seek |-> seek, play |-> play])]

\* updateAudioForCurrentVisual(): what it does to the audio element
updateAudioForCurrentVisual(audio, index, visuals) ==
    IF index < 0 \/ index >= Len(visuals) THEN audio
    ELSE LET visual == visuals[index + 1]
         IN IF ~hasAudio(visual) THEN audio
            ELSE IF audio.src # visual.audio_file
            THEN onceMetadata(loadFile(audio, visual.audio_file),
                              startAtOrZero(visual), FALSE)
            ELSE audio

\* updateAudioForCurrentVisual(): #audio-player-container .style.display
audioContainerAfter(display, index, visuals) ==
    IF index < 0 \/ index >= Len(visuals) THEN display
    ELSE IF hasAudio(visuals[index + 1]) THEN "flex" ELSE "none"

\* updateAudioForCurrentVisual(): currentAudioFile
audioFileAfter(file, audio, index, visuals) ==
    IF index < 0 \/ index >= Len(visuals) THEN file
    ELSE LET visual == visuals[index + 1]
         IN IF hasAudio(visual) /\ audio.src # visual.audio_file
            THEN visual.audio_file ELSE file

\* the 'loadedmetadata' listeners run in the order they were added
RECURSIVE runListeners(_, _)
runListeners(audio, listeners) ==
    IF listeners = <<>> THEN audio
    ELSE LET l == Head(listeners)
         IN runListeners([audio EXCEPT !.currentTime = l.seek,
                                       !.paused = IF l.play THEN FALSE ELSE @],
                         Tail(listeners))

\* the element after 'loadedmetadata' has been dispatched
afterMetadata(audio) ==
    runListeners([audio EXCEPT !.readyState = 1, !.onMetadata = <<>>],
                 audio.onMetadata)

\* a bug: the audio is updated although it is playing
selectVisualAudioAlways(audio, index, visuals) ==
    updateAudioForCurrentVisual(audio, index, visuals)

\* selectVisual: if (!audioPlayer || audioPlayer.paused)
\* updateAudioForCurrentVisual()
selectVisualAudio(audio, index, visuals) ==
    IF audio.paused THEN updateAudioForCurrentVisual(audio, index, visuals)
    ELSE audio

\* playNextAudio of the 'ended' handler
playNextAudio(audio, startAt) ==
    [audio EXCEPT !.currentTime = startAt, !.paused = FALSE]

\* Math.max(0, a)
Max0(a) == IF a < 0 THEN 0 ELSE a

\* a bug: the search of the 'ended' handler starts at the current visual
nextWithAudioFromCurrent(index, visuals) ==
    LET later == {j \in index..(Len(visuals) - 1) : hasAudio(visuals[j + 1])}
    IN IF later = {} THEN -1
       ELSE CHOOSE j \in later : \A k \in later : j <= k

\* the while loop of the 'ended' handler: the first index after the current
\* one whose visual has an audio file, -1 when the loop runs out
nextWithAudio(index, visuals) ==
    LET later == {j \in (index + 1)..(Len(visuals) - 1) : hasAudio(visuals[j + 1])}
    IN IF later = {} THEN -1
       ELSE CHOOSE j \in later : \A k \in later : j <= k

(***************************************************************************)
(* The panels                                                              *)
(***************************************************************************)
\* leftPanel.style.width = `${savedLeftWidth}%` (no resize is modelled)
savedLeftWidth == 70
fullWidth == 100
\* a panel as the HTML gives it: no inline width (0) has been set yet
ShownPanel(display) == [display |-> display, width |-> 0]

(***************************************************************************)
(* The page after the load handler and loadTextVisuals() have run          *)
(***************************************************************************)
\* populateVerseSelection(verses): checkbox.checked = selectedVerses.has(key)
populateVerseSelection(verses, sel) ==
    [i \in 1..Len(verses) |->
        verseKey(verses[i].chapter, verses[i].verse) \in Range(sel)]

EmptyText == <<>>
EmptyArrayText == <<LBracket, RBracket>>

MaxInFlight == 2
Slots == 1..MaxInFlight
NoReq == [model_name |-> "", record_level |-> "", top_k |-> <<>>,
          search_verses |-> <<>>]
Idle == [busy |-> FALSE, req |-> NoReq, latest |-> FALSE]
Response(kind, text, results, error) ==
    [kind |-> kind, english_search_text |-> text, results |-> results,
     error |-> error]
NoResponse == Response("none", NullText, <<>>, "")

InitPage(dense, models, levels, visuals, topKs, texts) ==
    /\ densePage \in dense
    /\ modelOptions = models
    /\ levelOptions = levels
    /\ textVisuals = visuals
    /\ currentVisualIndex = IF Len(visuals) > 0 THEN 0 ELSE -1
    /\ selectedVerses = <<>>
    /\ checked = IF Len(visuals) > 0
                 THEN populateVerseSelection(visuals[1].verses, <<>>) ELSE <<>>
    /\ modelName \in models
    /\ recordLevel \in levels
    /\ topK \in topKs
    /\ search_verses \in texts
    /\ searchButton = validateSearchButton(modelName, recordLevel, search_verses)
    /\ clearVersesDisabled = updateClearVersesButton(search_verses)
    /\ container = <<>>
    /\ inflight = [s \in Slots |-> Idle]
    /\ lastResponse = NoResponse
    /\ currentResults = <<>>
    /\ resultRatings = <<>>
    /\ feedbackSubmitted = FALSE
    /\ isSubmitting = FALSE
    /\ submitBtn = NoButton
    /\ submitButtonHandler = FALSE
    /\ saves = <<>>
    /\ feedbackDocs = <<>>
    /\ searchSeq = 0
    /\ reqId = [s \in Slots |-> 0]
    /\ shownSearch = 0
    /\ audioPlayer = updateAudioForCurrentVisual(NoAudio, currentVisualIndex, visuals)
    /\ audioContainer = audioContainerAfter("", currentVisualIndex, visuals)
    /\ currentAudioFile = audioFileAfter("", NoAudio, currentVisualIndex, visuals)
    /\ leftPanel = ShownPanel("")
    /\ rightPanel = ShownPanel("")
    /\ resizer = ""
    /\ leftRestore = "none"
    /\ rightRestore = "none"
    /\ isFullScreen = FALSE
    /\ navColumn = ""
    /\ verseColumn = ""

searchVars == <<container, inflight, lastResponse, currentResults, resultRatings,
                feedbackSubmitted, isSubmitting>>
configVars == <<densePage, modelOptions, levelOptions, textVisuals, db,
               formatVars>>

(***************************************************************************)
(* Handlers of the form and of the verse list                              *)
(***************************************************************************)
\* #model_name 'change' -> validateSearchButton
ChangeModel(m) ==
    /\ m \in modelOptions
    /\ modelName' = m
    /\ searchButton' = validateSearchButton(m, recordLevel, search_verses)
    /\ UNCHANGED <<configVars, searchVars, embedVars, feedbackVars, historyVars,
                   audioVars, panelVars, currentVisualIndex,
                   selectedVerses, checked, recordLevel, topK, search_verses,
                   clearVersesDisabled>>

\* #record_level 'change' -> validateSearchButton
ChangeRecordLevel(l) ==
    /\ l \in levelOptions
    /\ recordLevel' = l
    /\ searchButton' = validateSearchButton(modelName, l, search_verses)
    /\ UNCHANGED <<configVars, searchVars, embedVars, feedbackVars, historyVars,
                   audioVars, panelVars, currentVisualIndex,
                   selectedVerses, checked, modelName, topK, search_verses,
                   clearVersesDisabled>>

\* typing into #top_k: no listener
InputTopK(k) ==
    /\ topK' = k
    /\ UNCHANGED <<configVars, searchVars, embedVars, feedbackVars, historyVars,
                   audioVars, panelVars, currentVisualIndex,
                   selectedVerses, checked, modelName, recordLevel, search_verses,
                   searchButton, clearVersesDisabled>>

\* #search_verses 'input' -> updateClearVersesButton, validateSearchButton
InputSearchVerses(text) ==
    /\ search_verses' = text
    /\ clearVersesDisabled' = updateClearVersesButton(text)
    /\ searchButton' = validateSearchButton(modelName, recordLevel, text)
    /\ UNCHANGED <<configVars, searchVars, embedVars, feedbackVars, historyVars,
                   audioVars, panelVars, currentVisualIndex,
                   selectedVerses, checked, modelName, recordLevel, topK>>

\* what every change of selectedVerses ends with: updateSearchVersesField()
SelectionChanged(sel) ==
    /\ selectedVerses' = sel
    /\ search_verses' = updateSearchVersesField(sel)
    /\ clearVersesDisabled' = updateClearVersesButton(search_verses')
    /\ searchButton' = validateSearchButton(modelName, recordLevel, search_verses')

\* click on item i of #verse-list (or 'change' of its checkbox)
ToggleVerse(i) ==
    /\ i \in 1..Len(currentVerses)
    /\ checked' = [checked EXCEPT ![i] = ~checked[i]]
    /\ SelectionChanged(toggleVerseSelection(selectedVerses, currentVerses[i],
                                             ~checked[i]))
    /\ UNCHANGED <<configVars, searchVars, embedVars, feedbackVars, historyVars,
                   audioVars, panelVars, currentVisualIndex,
                   modelName, recordLevel, topK>>

\* the set after toggleVerseSelection has run for the items 1..n in turn
RECURSIVE toggleAll(_, _, _, _)
toggleAll(sel, verses, n, shouldSelect) ==
    IF n = 0 THEN sel
    ELSE toggleVerseSelection(toggleAll(sel, verses, n - 1, shouldSelect),
                              verses[n], shouldSelect)

\* selectAllVerses(): #select-all-btn
SelectAllVerses ==
    /\ Len(currentVerses) > 0
    /\ LET allSelected == \A i \in 1..Len(checked) : checked[i]
       IN /\ checked' = [i \in 1..Len(checked) |-> ~allSelected]
          /\ SelectionChanged(toggleAll(selectedVerses, currentVerses,
                                        Len(currentVerses), ~allSelected))
    /\ UNCHANGED <<configVars, searchVars, embedVars, feedbackVars, historyVars,
                   audioVars, panelVars, currentVisualIndex,
                   modelName, recordLevel, topK>>

\* clearAllVerses(): #clear-all-btn
ClearAllVerses ==
    /\ checked' = [i \in 1..Len(checked) |-> FALSE]
    /\ SelectionChanged(<<>>)
    /\ UNCHANGED <<configVars, searchVars, embedVars, feedbackVars, historyVars,
                   audioVars, panelVars, currentVisualIndex,
                   modelName, recordLevel, topK>>

\* clearSearchVerses(): #clear_verses_button, when it is enabled
ClearSearchVerses ==
    /\ ~clearVersesDisabled
    /\ search_verses' = EmptyArrayText
    /\ selectedVerses' = <<>>
    /\ checked' = [i \in 1..Len(checked) |-> FALSE]
    /\ clearVersesDisabled' = updateClearVersesButton(search_verses')
    /\ searchButton' = validateSearchButton(modelName, recordLevel, search_verses')
    /\ UNCHANGED <<configVars, searchVars, embedVars, feedbackVars, historyVars,
                   audioVars, panelVars, currentVisualIndex,
                   modelName, recordLevel, topK>>

\* what the handlers of the reader (navigation, audio, panels) leave alone
formVars == <<configVars, searchVars, embedVars, feedbackVars, historyVars,
              selectedVerses, modelName, recordLevel, topK, search_verses,
              searchButton, clearVersesDisabled>>

\* selectVisual(index): a nav item, #prev-btn or #next-btn
SelectVisual(index) ==
    /\ index >= 0 /\ index < Len(textVisuals)
    /\ currentVisualIndex' = index
    /\ checked' = populateVerseSelection(textVisuals[index + 1].verses,
                                         selectedVerses)
    /\ audioPlayer' = selectVisualAudio(audioPlayer, index, textVisuals)
    /\ audioContainer' = IF audioPlayer.paused
                         THEN audioContainerAfter(audioContainer, index, textVisuals)
                         ELSE audioContainer
    /\ currentAudioFile' = IF audioPlayer.paused
                           THEN audioFileAfter(currentAudioFile, audioPlayer,
                                               index, textVisuals)
                           ELSE currentAudioFile
    /\ UNCHANGED <<formVars, panelVars>>

(***************************************************************************)
(* The audio player: its buttons and the events of the element             *)
(***************************************************************************)
\* #audio-play-pause 'click'; play() on a file that has ended starts it again
PlayPause ==
    /\ audioContainer # "none"
    /\ audioPlayer' =
          IF audioPlayer.paused
          THEN [audioPlayer EXCEPT
                  !.paused = FALSE,
                  !.currentTime = IF audioPlayer.readyState >= 1 /\ @ = Duration
                                  THEN 0 ELSE @]
          ELSE [audioPlayer EXCEPT !.paused = TRUE]
    /\ UNCHANGED <<formVars, panelVars, currentVisualIndex, checked,
                   audioContainer, currentAudioFile>>

\* #audio-jump-back-10 'click'
JumpBack10 ==
    /\ audioContainer # "none"
    /\ audioPlayer' = [audioPlayer EXCEPT !.currentTime = Max0(@ - 10)]
    /\ UNCHANGED <<formVars, panelVars, currentVisualIndex, checked,
                   audioContainer, currentAudioFile>>

\* #audio-progress 'input': percent of the duration
SeekProgress(percent) ==
    /\ audioContainer # "none"
    /\ audioPlayer.readyState >= 1
    /\ audioPlayer' = [audioPlayer EXCEPT
                         !.currentTime = (percent * Duration) \div 100]
    /\ UNCHANGED <<formVars, panelVars, currentVisualIndex, checked,
                   audioContainer, currentAudioFile>>

\* #audio-jump-to-section 'click'
JumpToSection ==
    /\ audioContainer # "none"
    /\ currentVisualIndex >= 0 /\ currentVisualIndex < Len(textVisuals)
    /\ LET visual == textVisuals[currentVisualIndex + 1]
       IN IF hasAudio(visual) /\ visual.start_at # <<>>
          THEN IF audioPlayer.src # visual.audio_file
               THEN audioPlayer' = onceMetadata(loadFile(audioPlayer, visual.audio_file),
                                                startAtOrZero(visual),
                                                ~audioPlayer.paused)
               ELSE audioPlayer' = [audioPlayer EXCEPT
                                      !.currentTime = startAtOrZero(visual)]
          ELSE UNCHANGED audioPlayer
    /\ UNCHANGED <<formVars, panelVars, currentVisualIndex, checked,
                   audioContainer, currentAudioFile>>

\* the element: 'loadedmetadata' of the file that load() started
LoadedMetadata ==
    /\ audioPlayer.src # ""
    /\ audioPlayer.readyState = 0
    /\ audioPlayer' = afterMetadata(audioPlayer)
    /\ UNCHANGED <<formVars, panelVars, currentVisualIndex, checked,
                   audioContainer, currentAudioFile>>

\* the element: playback goes on by one step
TimeUpdate ==
    /\ ~audioPlayer.paused
    /\ audioPlayer.readyState >= 1
    /\ audioPlayer.currentTime < Duration
    /\ audioPlayer' = [audioPlayer EXCEPT !.currentTime = @ + 1]
    /\ UNCHANGED <<formVars, panelVars, currentVisualIndex, checked,
                   audioContainer, currentAudioFile>>

\* the element: playback has reached the end; the element is paused and
\* 'ended' is dispatched: the handler of setupAudioPlayer
Ended ==
    /\ ~audioPlayer.paused
    /\ audioPlayer.readyState >= 1
    /\ audioPlayer.currentTime = Duration
    /\ LET stopped == [audioPlayer EXCEPT !.paused = TRUE]
           nextIndex == nextWithAudio(currentVisualIndex, textVisuals)
       IN IF nextIndex = -1
          THEN /\ audioPlayer' = stopped
               /\ UNCHANGED <<currentVisualIndex, checked, audioContainer,
                              currentAudioFile>>
          ELSE LET nextVisual == textVisuals[nextIndex + 1]
                   startAt == startAtOrZero(nextVisual)
                   selected == selectVisualAudio(stopped, nextIndex, textVisuals)
               IN /\ currentVisualIndex' = nextIndex
                  /\ checked' = populateVerseSelection(nextVisual.verses,
                                                       selectedVerses)
                  /\ audioContainer' = audioContainerAfter(audioContainer,
                                                           nextIndex, textVisuals)
                  /\ currentAudioFile' = audioFileAfter(currentAudioFile, stopped,
                                                        nextIndex, textVisuals)
                  /\ audioPlayer' = IF selected.readyState >= 1
                                    THEN playNextAudio(selected, startAt)
                                    ELSE onceMetadata(selected, startAt, TRUE)
    /\ UNCHANGED <<formVars, panelVars>>

(***************************************************************************)
(* The panels: setupPanelToggles and toggleFullScreen                      *)
(***************************************************************************)
\* #left-panel-toggle 'click'
ClickLeftToggle ==
    /\ IF rightPanel.display = "none"
       THEN /\ rightPanel' = [display |-> "block",
                              width |-> fullWidth - savedLeftWidth]
            /\ resizer' = "block"
            /\ leftPanel' = [leftPanel EXCEPT !.width = savedLeftWidth]
            /\ rightRestore' = "none"
            /\ UNCHANGED leftRestore
       ELSE /\ leftPanel' = [leftPanel EXCEPT !.display = "none"]
            /\ resizer' = "none"
            /\ rightPanel' = [rightPanel EXCEPT !.width = fullWidth]
            /\ leftRestore' = "flex"
            /\ UNCHANGED rightRestore
    /\ UNCHANGED <<formVars, audioVars, currentVisualIndex, checked,
                   isFullScreen, navColumn, verseColumn>>

\* #right-panel-toggle 'click'
ClickRightToggle ==
    /\ IF leftPanel.display = "none"
       THEN /\ leftPanel' = [display |-> "flex", width |-> savedLeftWidth]
            /\ resizer' = "block"
            /\ rightPanel' = [rightPanel EXCEPT
                                 !.width = fullWidth - savedLeftWidth]
            /\ leftRestore' = "none"
            /\ UNCHANGED rightRestore
       ELSE /\ rightPanel' = [rightPanel EXCEPT !.display = "none"]
            /\ resizer' = "none"
            /\ leftPanel' = [leftPanel EXCEPT !.width = fullWidth]
            /\ rightRestore' = "flex"
            /\ UNCHANGED leftRestore
    /\ UNCHANGED <<formVars, audioVars, currentVisualIndex, checked,
                   isFullScreen, navColumn, verseColumn>>

\* the .left-restore button 'click' (the button is shown)
ClickLeftRestore ==
    /\ leftRestore # "none"
    /\ leftPanel' = [display |-> "flex", width |-> savedLeftWidth]
    /\ resizer' = "block"
    /\ rightPanel' = [display |-> "block", width |-> fullWidth - savedLeftWidth]
    /\ leftRestore' = "none"
    /\ UNCHANGED <<formVars, audioVars, currentVisualIndex, checked,
                   rightRestore, isFullScreen, navColumn, verseColumn>>

\* the .right-restore button 'click' (the button is shown)
ClickRightRestore ==
    /\ rightRestore # "none"
    /\ rightPanel' = [display |-> "block", width |-> fullWidth - savedLeftWidth]
    /\ resizer' = "block"
    /\ leftPanel' = [leftPanel EXCEPT !.width = savedLeftWidth]
    /\ rightRestore' = "none"
    /\ UNCHANGED <<formVars, audioVars, currentVisualIndex, checked,
                   leftRestore, isFullScreen, navColumn, verseColumn>>

\* toggleFullScreen(): #fullscreen-btn 'click'; mobile is
\* window.innerWidth <= 600 at the time of the click
ToggleFullScreen(mobile) ==
    /\ isFullScreen' = ~isFullScreen
    /\ IF isFullScreen'
       THEN /\ navColumn' = "none"
            /\ verseColumn' = "none"
            /\ rightPanel' = [rightPanel EXCEPT !.display = "none"]
            /\ resizer' = "none"
            /\ leftPanel' = [leftPanel EXCEPT !.width = fullWidth]
       ELSE /\ navColumn' = IF mobile THEN "none" ELSE ""
            /\ verseColumn' = IF mobile THEN "none" ELSE ""
            /\ rightPanel' = [display |-> "block",
                              width |-> fullWidth - savedLeftWidth]
            /\ resizer' = "block"
            /\ leftPanel' = [leftPanel EXCEPT !.width = savedLeftWidth]
    /\ UNCHANGED <<formVars, audioVars, currentVisualIndex, checked,
                   leftRestore, rightRestore>>

(***************************************************************************)
(* performSearch and the responses of /api/search                          *)
(***************************************************************************)
\* JSON.stringify(searchVerses) of whatever JSON.parse returned
stringifyParsed(p) == IF p.isArray THEN JSONstringify(p.value) ELSE <<LBrace, RBrace>>

\* performSearch() up to the fetch: the container it leaves, and the request
\* it issues (issued = FALSE on the two early returns)
performSearchStart(model, level, topKText, versesText) ==
    IF ~isValidCombination(model, level)
    THEN [issued |-> FALSE, req |-> NoReq,
          container |-> <<ErrorBlock("Invalid combination: <model> cannot be used with <level>")>>]
    ELSE IF ~JSONparse(versesText).ok
    THEN [issued |-> FALSE, req |-> NoReq,
          container |-> <<ErrorBlock("Invalid JSON in Search Verses field: <message>")>>]
    ELSE [issued |-> TRUE,
          req |-> [model_name |-> model, record_level |-> level,
                   top_k |-> topKText,
                   search_verses |-> stringifyParsed(JSONparse(versesText))],
          container |-> <<Spinner>>]

freeSlot == CHOOSE s \in Slots : ~inflight[s].busy /\ \A t \in Slots : t < s => inflight[t].busy

\* click on #search_button (a disabled button dispatches no click); id is
\* the history tag the search is started under
ClickSearch(id) ==
    /\ ~searchButton.disabled
    /\ \E s \in Slots : ~inflight[s].busy
    /\ LET start == performSearchStart(modelName, recordLevel, topK, search_verses)
       IN /\ container' = start.container
          /\ inflight' = IF start.issued
                         THEN [s \in Slots |->
                                 IF s = freeSlot
                                 THEN [busy |-> TRUE, req |-> start.req, latest |-> TRUE]
                                 ELSE [inflight[s] EXCEPT !.latest = FALSE]]
                         ELSE inflight
          /\ reqId' = IF start.issued THEN [reqId EXCEPT ![freeSlot] = id] ELSE reqId
    /\ searchSeq' = id
    /\ IF densePage
       THEN /\ resultRatings' = <<>>
            /\ currentResults' = <<>>
            /\ feedbackSubmitted' = FALSE
            /\ isSubmitting' = FALSE
            /\ shownSearch' = 0
            /\ submitButtonHandler' = (submitBtn.exists \/ submitButtonHandler)
       ELSE UNCHANGED <<resultRatings, currentResults, feedbackSubmitted,
                        isSubmitting, shownSearch, submitButtonHandler>>
    /\ submitBtn' = NoButton
    /\ saves' = detach(saves)
    /\ UNCHANGED <<configVars, embedVars, audioVars, panelVars, feedbackDocs,
                   currentVisualIndex, selectedVerses,
                   checked, modelName, recordLevel, topK, search_verses,
                   searchButton, clearVersesDisabled, lastResponse>>

\* the records of the collection of a (model, record_level) pair
Collection(model, level) ==
    IF level = "pericope"
    THEN {[id |-> 1, score |-> 9, verses |-> <<Verse(1, 1), Verse(1, 2)>>],
          [id |-> 2, score |-> 7, verses |-> <<Verse(2, 1)>>]}
    ELSE IF level = "verse"
    THEN {[id |-> 3, score |-> 8, verses |-> <<Verse(1, 1)>>]}
    ELSE {[id |-> 10 - n, score |-> n, verses |-> <<>>] : n \in 1..6}

\* the top_k the backend works with: 10 when missing, 0 when it is rejected
backendTopK(topKText) ==
    IF topKText = <<>> THEN DefaultTopK
    ELSE LET p == parseInt(topKText) IN IF p.nan \/ p.n <= 0 THEN 0 ELSE p.n

\* the records of a collection, the most similar first
RECURSIVE bySimilarity(_)
bySimilarity(coll) ==
    IF coll = {} THEN <<>>
    ELSE LET best == CHOOSE r \in coll : \A q \in coll : q.score <= r.score
         IN <<best>> \o bySimilarity(coll \ {best})

\* the result lists the backend may answer a request with: the most similar
\* records first, at most top_k of them
BackendResults(req) ==
    LET ranked == bySimilarity(Collection(req.model_name, req.record_level))
        k == backendTopK(req.top_k)
        n == Min(k, Len(ranked))
    IN IF k = 0 THEN {} ELSE {SubSeq(ranked, 1, m) : m \in 0..n}

EnglishTexts == {NullText, "In the beginning"}

\* the ok responses to a request: an object {english_search_text, results}
\* or, in the old format, the array of the results
OkResponses(req) ==
    {Response("ok_object", t, r, "") : t \in EnglishTexts, r \in BackendResults(req)}
    \cup {Response("ok_array", NullText, r, "") : r \in BackendResults(req)}

\* the fetches that fail: a response that is not ok whose body is the JSON
\* {error: ...} or a JSON without error or no JSON at all, and a rejected fetch
ErrorResponses ==
    {Response("error_json", NullText, <<>>, "backend error text"),
     Response("error_json", NullText, <<>>, ""),
     Response("error_not_json", NullText, <<>>, ""),
     Response("fetch_rejected", NullText, <<>>, "")}

\* error.message in the catch block of performSearch
errorMessage(resp) ==
    CASE resp.kind = "error_json" ->
            IF resp.error # "" THEN resp.error ELSE "Search failed"
      [] resp.kind = "error_not_json" -> "Unexpected token < in JSON at position 0"
      [] OTHER -> "Failed to fetch"

\* displayResults(results): the button of the feedback section it renders,
\* after the listeners are attached and updateSubmitButtonState() has run
buttonAfterDisplay(c, dense, submitted, results, ratings) ==
    IF hasBlock(c, "feedback-section")
    THEN updateSubmitButtonState([NewButton EXCEPT !.handler = dense], dense,
                                 submitted, TRUE, results, ratings)
    ELSE NoButton

\* the fetch of slot s settles with an ok response
RespondOk(s) ==
    /\ inflight[s].busy
    /\ \E resp \in OkResponses(inflight[s].req) :
          /\ lastResponse' = resp
          /\ container' = displayResults(
                              displaySearchInfo(container, resp.english_search_text),
                              resp.results, recordLevel, topK, densePage)
          /\ currentResults' = IF densePage THEN resp.results ELSE currentResults
    /\ shownSearch' = IF densePage THEN reqId[s] ELSE shownSearch
    /\ submitBtn' = buttonAfterDisplay(container', densePage, feedbackSubmitted,
                                       currentResults', resultRatings)
    /\ submitButtonHandler' =
          IF densePage /\ hasBlock(container', "feedback-section")
          THEN handlerAfterUpdate(NewButton, densePage, feedbackSubmitted, TRUE)
          ELSE submitButtonHandler
    /\ saves' = detach(saves)
    /\ inflight' = [inflight EXCEPT ![s] = Idle]
    /\ reqId' = [reqId EXCEPT ![s] = 0]
    /\ UNCHANGED <<configVars, embedVars, audioVars, panelVars, feedbackDocs,
                   searchSeq, currentVisualIndex, selectedVerses,
                   checked, modelName, recordLevel, topK, search_verses,
                   searchButton, clearVersesDisabled, resultRatings,
                   feedbackSubmitted, isSubmitting>>

\* a bug: the catch block resets the ratings and the results only
searchFailedKeepSpinner(old, message) == old

\* the catch block of performSearch: what it leaves in the container
searchFailed(old, message) == <<ErrorBlock(message)>>

\* the fetch of slot s is rejected, or settles with a response that is not ok
RespondError(s) ==
    /\ inflight[s].busy
    /\ \E resp \in ErrorResponses :
          /\ lastResponse' = resp
          /\ container' = searchFailed(container, errorMessage(resp))
    /\ IF densePage
       THEN resultRatings' = <<>> /\ currentResults' = <<>> /\ shownSearch' = 0
       ELSE UNCHANGED <<resultRatings, currentResults, shownSearch>>
    /\ submitBtn' = IF hasBlock(container', "feedback-section") THEN submitBtn
                    ELSE NoButton
    /\ saves' = IF hasBlock(container', "feedback-section") THEN saves
                ELSE detach(saves)
    /\ inflight' = [inflight EXCEPT ![s] = Idle]
    /\ reqId' = [reqId EXCEPT ![s] = 0]
    /\ UNCHANGED <<configVars, embedVars, audioVars, panelVars, feedbackDocs,
                   searchSeq, submitButtonHandler,
                   currentVisualIndex, selectedVerses,
                   checked, modelName, recordLevel, topK, search_verses,
                   searchButton, clearVersesDisabled, feedbackSubmitted,
                   isSubmitting>>

(***************************************************************************)
(* Ratings and handleFeedbackSubmit                                        *)
(***************************************************************************)
\* 'change' of the .meditation-rating select of result index (0-based)
RateResult(index, value) ==
    /\ densePage
    /\ index + 1 <= Len(resultItems(container))
    /\ resultItems(container)[index + 1].showRating
    /\ resultRatings' = setRating(resultRatings, index, value)
    /\ submitBtn' = updateSubmitButtonState(submitBtn, densePage, feedbackSubmitted,
                                            submitButtonHandler, currentResults,
                                            resultRatings')
    /\ submitButtonHandler' = handlerAfterUpdate(submitBtn, densePage,
                                                 feedbackSubmitted,
                                                 submitButtonHandler)
    /\ UNCHANGED <<configVars, embedVars, audioVars, panelVars, historyVars,
                   saves, feedbackDocs, currentVisualIndex, selectedVerses,
                   checked, modelName, recordLevel, topK, search_verses,
                   searchButton, clearVersesDisabled, container, inflight,
                   lastResponse, currentResults, feedbackSubmitted, isSubmitting>>

\* handleFeedbackSubmit(): it goes on past its first return
submitGuard(btn, submitting, submitted) ==
    btn.exists /\ ~btn.disabled /\ ~submitting /\ ~submitted

\* click on #submit-feedback-btn while its 'click' listener is attached;
\* handleFeedbackSubmit() up to its await (to its end when db is null or
\* search_verses does not parse)
ClickSubmit ==
    /\ densePage
    /\ submitBtn.exists /\ ~submitBtn.disabled /\ submitBtn.handler
    /\ submitGuard(submitBtn, isSubmitting, feedbackSubmitted)
    /\ IF ~JSONparse(search_verses).ok
       THEN \* the catch block: the flag is reset, the button is enabled again
            /\ isSubmitting' = FALSE
            /\ submitBtn' = [submitBtn EXCEPT !.disabled = FALSE]
            /\ UNCHANGED <<saves, feedbackSubmitted, submitButtonHandler>>
       ELSE IF db
       THEN /\ isSubmitting' = TRUE
            /\ submitBtn' = [submitBtn EXCEPT !.disabled = TRUE]
            /\ saves' = Append(saves,
                          [doc |-> feedbackDoc(shownSearch, modelName, recordLevel,
                                               topK, search_verses, currentResults,
                                               resultRatings),
                           btnLive |-> TRUE])
            /\ UNCHANGED <<feedbackSubmitted, submitButtonHandler>>
       ELSE /\ isSubmitting' = TRUE
            /\ feedbackSubmitted' = TRUE
            /\ submitBtn' = updateSubmitButtonState(
                                [submitBtn EXCEPT !.disabled = TRUE], densePage,
                                TRUE, submitButtonHandler, currentResults,
                                resultRatings)
            /\ submitButtonHandler' = handlerAfterUpdate(submitBtn, densePage, TRUE,
                                                         submitButtonHandler)
            /\ UNCHANGED saves
    /\ UNCHANGED <<configVars, embedVars, audioVars, panelVars, historyVars,
                   feedbackDocs, currentVisualIndex, selectedVerses,
                   checked, modelName, recordLevel, topK, search_verses,
                   searchButton, clearVersesDisabled, container, inflight,
                   lastResponse, currentResults, resultRatings>>

\* db.collection('SearchFeedback').add(feedbackDoc) resolves: the document is
\* written, feedbackSubmitted is set and updateSubmitButtonState() runs
SaveDone(k) ==
    /\ k \in 1..Len(saves)
    /\ feedbackDocs' = Append(feedbackDocs, saves[k].doc)
    /\ saves' = removeAt(saves, k)
    /\ feedbackSubmitted' = TRUE
    /\ submitBtn' = updateSubmitButtonState(submitBtn, densePage, TRUE,
                                            submitButtonHandler, currentResults,
                                            resultRatings)
    /\ submitButtonHandler' = handlerAfterUpdate(submitBtn, densePage, TRUE,
                                                 submitButtonHandler)
    /\ UNCHANGED <<configVars, embedVars, audioVars, panelVars, historyVars,
                   currentVisualIndex, selectedVerses,
                   checked, modelName, recordLevel, topK, search_verses,
                   searchButton, clearVersesDisabled, container, inflight,
                   lastResponse, currentResults, resultRatings, isSubmitting>>

\* db.collection('SearchFeedback').add(feedbackDoc) rejects: no document is
\* written; the catch block resets isSubmitting and enables the button that
\* was clicked (which is on the page only if nothing was rendered since)
SaveFail(k) ==
    /\ k \in 1..Len(saves)
    /\ saves' = removeAt(saves, k)
    /\ isSubmitting' = FALSE
    /\ submitBtn' = IF saves[k].btnLive
                    THEN [submitBtn EXCEPT !.disabled = FALSE]
                    ELSE submitBtn
    /\ UNCHANGED <<configVars, embedVars, audioVars, panelVars, historyVars,
                   feedbackDocs, submitButtonHandler,
                   currentVisualIndex, selectedVerses,
                   checked, modelName, recordLevel, topK, search_verses,
                   searchButton, clearVersesDisabled, container, inflight,
                   lastResponse, currentResults, resultRatings,
                   feedbackSubmitted>>

(***************************************************************************)
(* The embedding adapter (part_003): concurrent generateEmbedding calls    *)
(***************************************************************************)
MODEL_CONFIGS ==
    [berit      |-> [maxLength |-> 128, dimension |-> 256],
     hebrew_st  |-> [maxLength |-> 512, dimension |-> 768],
     english_st |-> [maxLength |-> 384, dimension |-> 768]]

MaxCalls == 2
CallIds == 1..MaxCalls
\* what a call resolved with: the kind of JavaScript value, whether it is an
\* array of numbers only, and its length
NoEmbedding == [kind |-> "none", flat |-> FALSE, length |-> 0]
NoCall == [modelKey |-> "", pc |-> "idle", attempts |-> 0,
           providerError |-> "", error |-> <<>>, result |-> NoEmbedding]

\* the lengths a provider's vector can have: the configured ones and none
VectorLengths == {MODEL_CONFIGS[k].dimension : k \in DOMAIN MODEL_CONFIGS} \cup {0}

\* JSON.parse(stdout.trim()) when it neither throws nor has a truthy .error:
\* any JSON value but null and an object with an error
pythonParsed ==
    [kind : {"array"}, flat : BOOLEAN, length : VectorLengths]
        \cup {[kind |-> "number", flat |-> FALSE, length |-> 0]}

\* Array.from(output.data): the tensor's data, one number per element
tensorData == [kind : {"array"}, flat : {TRUE}, length : VectorLengths]

\* the catch block of generateEmbeddingPython: it throws a new Error
pythonCatch(call, message) ==
    [call EXCEPT !.pc = "failed", !.providerError = message,
                 !.error = <<"Failed to generate embedding: ", message>>]

\* an error that reaches the caller unchanged
rethrown(message) == <<message>>

\* generateEmbedding(text, modelKey): up to its first await.  berit and
\* hebrew_st run the Python script; english_st goes through loadModel
StartCall(c, key) ==
    /\ calls[c].pc = "idle"
    /\ IF key \in {"berit", "hebrew_st"}
       THEN /\ calls' = [calls EXCEPT ![c] = [NoCall EXCEPT !.modelKey = key,
                                                !.pc = "python", !.attempts = 1]]
            /\ UNCHANGED <<modelCache, pipelineInits>>
       ELSE IF key \in modelCache
       THEN /\ calls' = [calls EXCEPT ![c] = [NoCall EXCEPT !.modelKey = key,
                                                !.pc = "pipe", !.attempts = 1]]
            /\ UNCHANGED <<modelCache, pipelineInits>>
       ELSE /\ calls' = [calls EXCEPT ![c] = [NoCall EXCEPT !.modelKey = key,
                                                !.pc = "loading", !.attempts = 1]]
            /\ UNCHANGED <<modelCache, pipelineInits>>
    /\ UNCHANGED pageVars

\* await pipeline(...) resolves: modelCache.set, then pipe(text, ...) is called
LoadDone(c) ==
    /\ calls[c].pc = "loading"
    /\ modelCache' = modelCache \cup {calls[c].modelKey}
    /\ pipelineInits' = [pipelineInits EXCEPT ![calls[c].modelKey] = @ + 1]
    /\ calls' = [calls EXCEPT ![c].pc = "pipe"]
    /\ UNCHANGED pageVars

ProviderErrors == {"429 Too Many Requests", "network failure"}

\* await pipeline(...) rejects: nothing catches it
LoadFail(c) ==
    /\ calls[c].pc = "loading"
    /\ \E e \in ProviderErrors :
          calls' = [calls EXCEPT ![c].pc = "failed", ![c].providerError = e,
                                 ![c].error = rethrown(e)]
    /\ UNCHANGED <<modelCache, pipelineInits, pageVars>>

\* await pipe(text, ...) resolves: Array.from(output.data)
PipeDone(c) ==
    /\ calls[c].pc = "pipe"
    /\ \E embedding \in tensorData :
          calls' = [calls EXCEPT ![c].pc = "done", ![c].result = embedding]
    /\ UNCHANGED <<modelCache, pipelineInits, pageVars>>

\* await pipe(text, ...) rejects: nothing catches it
PipeFail(c) ==
    /\ calls[c].pc = "pipe"
    /\ \E e \in ProviderErrors :
          calls' = [calls EXCEPT ![c].pc = "failed", ![c].providerError = e,
                                 ![c].error = rethrown(e)]
    /\ UNCHANGED <<modelCache, pipelineInits, pageVars>>

\* await execFileAsync(...) resolves, stdout parses and has no .error:
\* return embedding as number[] (a cast, nothing is checked)
PythonDone(c) ==
    /\ calls[c].pc = "python"
    /\ \E embedding \in pythonParsed :
          calls' = [calls EXCEPT ![c].pc = "done", ![c].result = embedding]
    /\ UNCHANGED <<modelCache, pipelineInits, pageVars>>

\* execFileAsync rejects, stdout is no JSON, or stdout is {"error": ...}:
\* all three end in the catch block
PythonFail(c) ==
    /\ calls[c].pc = "python"
    /\ \E e \in ProviderErrors :
          calls' = [calls EXCEPT ![c] = pythonCatch(calls[c], e)]
    /\ UNCHANGED <<modelCache, pipelineInits, pageVars>>

\* the caller has taken the result: the id is free for another call
Return(c) ==
    /\ calls[c].pc \in {"done", "failed"}
    /\ calls' = [calls EXCEPT ![c] = NoCall]
    /\ UNCHANGED <<modelCache, pipelineInits, pageVars>>

\* formatVerses has not been called
FormatIdle == versesStr = <<>> /\ formatted = <<>>

EmbedIdle ==
    /\ modelCache = {}
    /\ pipelineInits = [k \in DOMAIN MODEL_CONFIGS |-> 0]
    /\ calls = [c \in CallIds |-> NoCall]

(***************************************************************************)
(* Specifications                                                          *)
(***************************************************************************)
AllModels == {"hebrew_st", "berit", "english_st"}
AllLevels == DOMAIN VALID_COMBINATIONS \cup {"chapter"}
Visuals == <<[verses |-> <<Verse(1, 1), Verse(1, 2)>>, audio_file |-> "",
               start_at |-> <<>>],
             [verses |-> <<Verse(2, 1)>>, audio_file |-> "", start_at |-> <<>>]>>
OneVerseVisual == <<[verses |-> <<Verse(1, 1)>>, audio_file |-> "",
                     start_at |-> <<>>]>>
DefaultTopKText == <<"1", "0">>
TopKInputs == {<<>>, <<"0">>, <<"-", "1">>, <<"a", "b", "c">>, <<"1">>, <<"5">>}
TopKSearched == {<<>>, <<"0">>, <<"-", "1">>, <<"1">>}
TypedTexts == {EmptyText, <<LBracket>>, <<LBrace, RBrace>>,
               JSONstringify(<<Verse(2, 1), Verse(1, 1)>>)}

\* SpecForm: the form and the verse list, every option and every typed text;
\* no search is started (no handler of the form reads what a search writes)
InitForm ==
    /\ db = TRUE
    /\ InitPage({TRUE}, AllModels, AllLevels, Visuals, {DefaultTopKText},
                {EmptyText, EmptyArrayText})
    /\ EmbedIdle
    /\ FormatIdle
NextForm ==
    \/ \E m \in AllModels : ChangeModel(m)
    \/ \E l \in AllLevels : ChangeRecordLevel(l)
    \/ \E k \in TopKInputs : InputTopK(k)
    \/ \E t \in TypedTexts : InputSearchVerses(t)
    \/ \E i \in 1..Len(currentVerses) : ToggleVerse(i)
    \/ SelectAllVerses
    \/ ClearAllVerses
    \/ ClearSearchVerses
    \/ \E i \in 0..(Len(textVisuals) - 1) : SelectVisual(i)
SpecForm == InitForm /\ [][NextForm]_vars

\* Spec: searches, with the model, the record level and the verses changing
\* under them; top_k stays as loaded
Init ==
    /\ db = TRUE
    /\ InitPage(BOOLEAN, {"berit", "english_st"}, {"pericope", "verse"},
                OneVerseVisual, {DefaultTopKText}, {EmptyArrayText})
    /\ EmbedIdle
    /\ FormatIdle
Next ==
    \/ \E m \in modelOptions : ChangeModel(m)
    \/ \E l \in levelOptions : ChangeRecordLevel(l)
    \/ InputSearchVerses(<<LBracket>>)
    \/ \E i \in 1..Len(currentVerses) : ToggleVerse(i)
    \/ ClearSearchVerses
    \/ ClickSearch(0)
    \/ \E s \in Slots : RespondOk(s)
    \/ \E s \in Slots : RespondError(s)
Spec == Init /\ [][Next]_vars

\* FairSpec: searches of one valid pair on either page; every fetch settles
\* (the browser resolves or rejects its promise)
InitSettle ==
    /\ db = TRUE
    /\ InitPage(BOOLEAN, {"english_st"}, {"pericope"}, OneVerseVisual,
                {DefaultTopKText}, {EmptyArrayText})
    /\ EmbedIdle
    /\ FormatIdle
NextSettle ==
    \/ \E i \in 1..Len(currentVerses) : ToggleVerse(i)
    \/ ClickSearch(0)
    \/ \E s \in Slots : RespondOk(s)
    \/ \E s \in Slots : RespondError(s)
Fairness == \A s \in Slots : WF_vars(RespondOk(s) \/ RespondError(s))
FairSpec == InitSettle /\ [][NextSettle]_vars /\ Fairness

\* SpecTopK: searches of one valid pair, with top_k changing under them
InitTopK ==
    /\ db = TRUE
    /\ InitPage({TRUE}, {"english_st"}, {"pericope"}, OneVerseVisual,
                {DefaultTopKText}, {EmptyArrayText})
    /\ EmbedIdle
    /\ FormatIdle
NextTopK ==
    \/ \E k \in TopKSearched : InputTopK(k)
    \/ \E i \in 1..Len(currentVerses) : ToggleVerse(i)
    \/ ClickSearch(0)
    \/ \E s \in Slots : RespondOk(s)
    \/ \E s \in Slots : RespondError(s)
SpecTopK == InitTopK /\ [][NextTopK]_vars

\* SpecFeedback: searches of the dense page whose results are rated and
\* submitted; the searches are numbered, at most MaxSearches are started
MaxSearches == 2
RatingsTried == {<<>>, <<"5">>}
InitFeedback ==
    /\ db = TRUE
    /\ InitPage({TRUE}, {"english_st"}, {"verse"}, OneVerseVisual,
                {DefaultTopKText}, {EmptyArrayText})
    /\ EmbedIdle
    /\ FormatIdle
NextFeedback ==
    \/ \E i \in 1..Len(currentVerses) : ToggleVerse(i)
    \/ searchSeq < MaxSearches /\ ClickSearch(searchSeq + 1)
    \/ \E s \in Slots : RespondOk(s)
    \/ \E s \in Slots : RespondError(s)
    \/ \E i \in 0..(TopRated - 1), v \in RatingsTried : RateResult(i, v)
    \/ ClickSubmit
    \/ \E k \in 1..Len(saves) : SaveDone(k)
    \/ \E k \in 1..Len(saves) : SaveFail(k)
SpecFeedback == InitFeedback /\ [][NextFeedback]_vars

\* SpecRanking: one search of a collection of more than five records, rated
\* and submitted, with and without Firestore
InitRanking ==
    /\ db \in BOOLEAN
    /\ InitPage({TRUE}, {"english_st"}, {"agentic_english_st"}, OneVerseVisual,
                {DefaultTopKText}, {EmptyArrayText})
    /\ EmbedIdle
    /\ FormatIdle
NextRanking ==
    \/ \E i \in 1..Len(currentVerses) : ToggleVerse(i)
    \/ searchSeq = 0 /\ ClickSearch(1)
    \/ \E s \in Slots : RespondOk(s)
    \/ \E s \in Slots : RespondError(s)
    \/ \E i \in 0..(TopRated - 1), v \in RatingsTried : RateResult(i, v)
    \/ ClickSubmit
    \/ \E k \in 1..Len(saves) : SaveDone(k)
    \/ \E k \in 1..Len(saves) : SaveFail(k)
SpecRanking == InitRanking /\ [][NextRanking]_vars

\* SpecEmbed: the embedding adapter alone
InitEmbed ==
    /\ db = TRUE
    /\ InitPage({TRUE}, AllModels, AllLevels, Visuals, {DefaultTopKText},
                {EmptyArrayText})
    /\ modelName = "english_st" /\ recordLevel = "verse"
    /\ EmbedIdle
    /\ FormatIdle
NextEmbed ==
    \/ \E c \in CallIds, k \in DOMAIN MODEL_CONFIGS : StartCall(c, k)
    \/ \E c \in CallIds : LoadDone(c)
    \/ \E c \in CallIds : LoadFail(c)
    \/ \E c \in CallIds : PipeDone(c)
    \/ \E c \in CallIds : PipeFail(c)
    \/ \E c \in CallIds : PythonDone(c)
    \/ \E c \in CallIds : PythonFail(c)
    \/ \E c \in CallIds : Return(c)
SpecEmbed == InitEmbed /\ [][NextEmbed]_vars

\* SpecReader: the reader: navigation, the audio player and the panels.
\* The first and the third visual share an audio file; the second has none
MaxPending == 3
ReaderVisuals ==
    <<[verses |-> <<Verse(1, 1)>>, audio_file |-> "a.mp3", start_at |-> <<>>],
      [verses |-> <<Verse(1, 2)>>, audio_file |-> "", start_at |-> <<>>],
      [verses |-> <<Verse(2, 1)>>, audio_file |-> "a.mp3", start_at |-> <<1>>],
      [verses |-> <<Verse(3, 1)>>, audio_file |-> "b.mp3", start_at |-> <<>>]>>
Percents == {0, 50, 100}
InitReader ==
    /\ db = TRUE
    /\ InitPage({TRUE}, {"english_st"}, {"verse"}, ReaderVisuals,
                {DefaultTopKText}, {EmptyArrayText})
    /\ EmbedIdle
    /\ FormatIdle
NextReader ==
    \/ \E i \in 0..(Len(textVisuals) - 1) :
          Len(audioPlayer.onMetadata) < MaxPending /\ SelectVisual(i)
    \/ PlayPause
    \/ JumpBack10
    \/ \E percent \in Percents : SeekProgress(percent)
    \/ Len(audioPlayer.onMetadata) < MaxPending /\ JumpToSection
    \/ LoadedMetadata
    \/ TimeUpdate
    \/ Ended
    \/ ClickLeftToggle
    \/ ClickRightToggle
    \/ ClickLeftRestore
    \/ ClickRightRestore
    \/ \E mobile \in BOOLEAN : ToggleFullScreen(mobile)
SpecReader == InitReader /\ [][NextReader]_vars

\* SpecFormat: formatVerses alone, called with every list of up to
\* MaxVerseList distinct verses of two chapters, in every order
MaxVerseList == 3
VerseUniverse == {Verse(c, v) : c \in 1..2, v \in 1..3}
VerseLists ==
    UNION {{l \in [1..n -> VerseUniverse] :
               \A i, j \in 1..n : i # j => l[i] # l[j]} : n \in 0..MaxVerseList}
\* formatVerses(verses) is called with another array
PassVerses(verses) ==
    /\ versesStr' = verses
    /\ formatted' = <<>>
    /\ UNCHANGED <<densePage, modelOptions, levelOptions, textVisuals, db,
                   searchVars, embedVars, feedbackVars, historyVars, audioVars,
                   panelVars, currentVisualIndex, selectedVerses, checked,
                   modelName, recordLevel, topK, search_verses, searchButton,
                   clearVersesDisabled>>
\* formatVerses returns
FormatVerses ==
    /\ formatted' = formatVerses(versesStr)
    /\ UNCHANGED <<densePage, modelOptions, levelOptions, textVisuals, db,
                   searchVars, embedVars, feedbackVars, historyVars, audioVars,
                   panelVars, currentVisualIndex, selectedVerses, checked,
                   modelName, recordLevel, topK, search_verses, searchButton,
                   clearVersesDisabled, versesStr>>
InitFormat ==
    /\ db = TRUE
    /\ InitPage({TRUE}, {"english_st"}, {"pericope"}, OneVerseVisual,
                {DefaultTopKText}, {EmptyArrayText})
    /\ EmbedIdle
    /\ versesStr \in VerseLists
    /\ formatted = <<>>
NextFormat ==
    \/ \E verses \in VerseLists : PassVerses(verses)
    \/ FormatVerses
SpecFormat == InitFormat /\ [][NextFormat]_vars

(***************************************************************************)
(* Properties                                                              *)
(***************************************************************************)
\* the compatibility matrix, pair by pair
PermittedPairs ==
    {<<"pericope", "hebrew_st">>, <<"pericope", "english_st">>,
     <<"verse", "hebrew_st">>, <<"verse", "berit">>, <<"verse", "english_st">>,
     <<"agentic_berit", "berit">>, <<"agentic_berit", "hebrew_st">>,
     <<"agentic_berit", "english_st">>,
     <<"agentic_hebrew_st", "hebrew_st">>, <<"agentic_hebrew_st", "english_st">>,
     <<"agentic_english_st", "hebrew_st">>, <<"agentic_english_st", "english_st">>}
pairPermitted == <<recordLevel, modelName>> \in PermittedPairs
parsedVerses == JSONparse(search_verses)
fieldIsNonEmptyArray ==
    parsedVerses.ok /\ parsedVerses.isArray /\ parsedVerses.value # <<>>
busySlots == {s \in Slots : inflight[s].busy}

\* C1: the validation of the Search button accepts the selected (model_name,
\* record_level) pair exactly when the pair is in the compatibility matrix:
\* the button carries the invalid-combination title exactly for the other
\* pairs, with verses to search it is enabled exactly for the pairs of the
\* matrix, and berit with pericope is rejected.
C1_ValidationMatchesMatrix ==
    /\ (searchButton.title.text = InvalidTitle(recordLevel).text) <=> ~pairPermitted
    /\ fieldIsNonEmptyArray => (searchButton.disabled <=> ~pairPermitted)
    /\ (modelName = "berit" /\ recordLevel = "pericope") => searchButton.disabled

C1_BeritPericopeRejected ==
    /\ modelName = "berit" /\ recordLevel = "pericope"
    /\ fieldIsNonEmptyArray
    /\ searchButton.disabled
    /\ searchButton.title.text = InvalidTitle("pericope").text

\* C2: no request to the search endpoint is in flight for a (model_name,
\* record_level) pair outside the compatibility matrix; while the selected
\* pair is outside the matrix the Search button is disabled, so that no
\* search can be started.
C2_NoRequestForInvalidPair ==
    /\ \A s \in busySlots :
          <<inflight[s].req.record_level, inflight[s].req.model_name>>
              \in PermittedPairs
    /\ ~pairPermitted => searchButton.disabled

C2_InvalidPairWhileSearching ==
    /\ ~pairPermitted
    /\ fieldIsNonEmptyArray
    /\ searchButton.disabled
    /\ busySlots # {}

\* C3: no request is in flight whose search_verses is not a non-empty array;
\* while the search_verses field holds an empty list (or no array at all) the
\* Search button is disabled and, for a pair of the matrix, its title asks
\* for verses.
C3_NoRequestForEmptyVerses ==
    /\ \A s \in busySlots :
          LET p == JSONparse(inflight[s].req.search_verses)
          IN p.ok /\ p.isArray /\ p.value # <<>>
    /\ ~fieldIsNonEmptyArray =>
          /\ searchButton.disabled
          /\ pairPermitted => searchButton.title.text = "Please add verses to search"

C3_EmptyListRejected ==
    /\ parsedVerses.ok /\ parsedVerses.isArray /\ parsedVerses.value = <<>>
    /\ pairPermitted
    /\ searchButton.disabled
    /\ searchButton.title.text = "Please add verses to search"
    /\ container # <<>>

\* the verses that are selected, as a set
selectedSet == {parseKey(k) : k \in Range(selectedVerses)}
strictlyAscending(arr) ==
    \A i, j \in 1..Len(arr) :
        i < j => \/ arr[i].chapter < arr[j].chapter
                 \/ arr[i].chapter = arr[j].chapter /\ arr[i].verse < arr[j].verse
fieldNormalised ==
    /\ parsedVerses.ok /\ parsedVerses.isArray
    /\ Range(parsedVerses.value) = selectedSet
    /\ strictlyAscending(parsedVerses.value)
    /\ search_verses = JSONstringify(parsedVerses.value)
selectionStep ==
    \/ \E i \in 1..Len(currentVerses) : ToggleVerse(i)
    \/ SelectAllVerses
    \/ ClearAllVerses
    \/ ClearSearchVerses

\* C4: after every verse toggle, Select All and Clear the search_verses field
\* is the JSON array of exactly the selected verses, each once, in ascending
\* (chapter, verse) order, whatever the order they were selected in.
C4_FieldOrderNormalised == [][selectionStep => fieldNormalised']_vars

C4_SelectedOutOfOrder ==
    /\ selectedVerses = <<verseKey(2, 1), verseKey(1, 2), verseKey(1, 1)>>
    /\ fieldNormalised

\* C5: for each model key the embedding model is built at most once, for
\* every interleaving of concurrent generateEmbedding calls.
C5_InitialisedAtMostOnce ==
    \A k \in DOMAIN MODEL_CONFIGS : pipelineInits[k] <= 1

\* C6: a call whose provider failed has been retried once before its error
\* reaches the caller, and a provider failure always ends in a failed call.
C6_RetriedOnceThenPropagated ==
    \A c \in CallIds :
        /\ calls[c].providerError # "" => calls[c].pc = "failed"
        /\ calls[c].pc = "failed" => calls[c].attempts = 2

settles(s) == inflight[s].busy /\ ~inflight'[s].busy
shownResults(c) == [i \in 1..Len(resultItems(c)) |-> resultItems(c)[i].result]

\* C7: when a search settles, the number of results shown (and kept in
\* currentResults) is at most the top_k of its request and at most the
\* number of records of the collection of its (model, record_level) pair.
C7_AtMostTopKAndCollection ==
    [][\A s \in Slots :
          settles(s) =>
            LET req == inflight[s].req
                size == Cardinality(Collection(req.model_name, req.record_level))
            IN /\ Len(resultItems(container')) <= backendTopK(req.top_k)
               /\ Len(resultItems(container')) <= size
               /\ Len(currentResults') <= backendTopK(req.top_k)
               /\ Len(currentResults') <= size]_vars

C7_WholeCollectionShown ==
    /\ Len(resultItems(container)) = 2
    /\ Len(currentResults) = 2
    /\ shownResults(container) = lastResponse.results
    /\ Cardinality(Collection(modelName, recordLevel)) = 2

\* C8: every request in flight carries a top_k that is missing or a positive
\* integer: a zero, negative or non-numeric top_k is rejected before the
\* request is issued.
C8_OnlyPositiveTopKRequested ==
    \A s \in busySlots :
        LET text == inflight[s].req.top_k
        IN text = <<>> \/ (~parseInt(text).nan /\ parseInt(text).n > 0)

\* C9: each rejection of the Search button names the offending field: an
\* unknown record_level has a message of its own, a model that is not
\* permitted at a known record_level is reported with the models permitted
\* there, and a search_verses text that is no JSON is reported as malformed.
C9_MessageNamesOffendingField ==
    /\ recordLevel \notin DOMAIN VALID_COMBINATIONS =>
          /\ searchButton.disabled
          /\ searchButton.title.text \notin
                {"", InvalidTitle(recordLevel).text, AddVersesTitle.text}
    /\ (recordLevel \in DOMAIN VALID_COMBINATIONS /\ ~pairPermitted) =>
          /\ searchButton.disabled
          /\ searchButton.title.text = InvalidTitle(recordLevel).text
          /\ searchButton.title.models = VALID_COMBINATIONS[recordLevel]
    /\ (pairPermitted /\ ~parsedVerses.ok) =>
          /\ searchButton.disabled
          /\ searchButton.title.text \notin {"", AddVersesTitle.text}

visibleOutcomes(c) ==
    {k \in {"result-item", "no-results", "error"} : hasBlock(c, k)}
settledWithOneOutcome ==
    \A s \in Slots :
        settles(s) =>
            /\ Cardinality(visibleOutcomes(container')) = 1
            /\ ~hasBlock(container', "spinner")
            /\ lastResponse'.kind \in {"ok_object", "ok_array"} =>
                  /\ shownResults(container') = lastResponse'.results
                  /\ hasBlock(container', "no-results") <=> lastResponse'.results = <<>>
            /\ lastResponse'.kind \notin {"ok_object", "ok_array"} =>
                  /\ hasBlock(container', "error")
                  /\ currentResults' = <<>>
            /\ (lastResponse'.kind = "error_json" /\ lastResponse'.error # "") =>
                  container' = <<ErrorBlock(lastResponse'.error)>>

C11_NoVerseRangeAtVerseLevel ==
    [][\A s \in Slots :
          (settles(s) /\ inflight[s].req.record_level = "verse") =>
              \A i \in 1..Len(container') : ~container'[i].showVerses]_vars

bestFirst(results) ==
    \A i, j \in 1..Len(results) : i < j => results[i].score >= results[j].score
submitted == Len(saves') = Len(saves) + 1
entries(d) == d.results_and_ranking

\* C12: the results shown and kept are ordered best-first (the scores never
\* increase along the list), and a feedback document holds, for each of the
\* first five results, the result at that position with its position as rank.
C12_BestFirstAndRankIsPosition ==
    /\ [](bestFirst(shownResults(container)) /\ bestFirst(currentResults))
    /\ [][submitted =>
            LET d == saves'[Len(saves')].doc
            IN /\ Len(entries(d)) = Min(5, Len(shownResults(container)))
               /\ \A k \in 1..Len(entries(d)) :
                     /\ entries(d)[k].rank = k
                     /\ entries(d)[k].result = shownResults(container)[k]]_vars

C12_TopFiveOfSixStored ==
    /\ Len(shownResults(container)) = 6
    /\ Len(feedbackDocs) = 1
    /\ Len(entries(feedbackDocs[1])) = 5
    /\ entries(feedbackDocs[1])[5].rank = 5
    /\ entries(feedbackDocs[1])[5].result = currentResults[5]

\* C13: the score of a result has one label: the field a feedback document
\* stores it in is named as the page labels it.
C13_OneScoreLabel ==
    \A n \in 1..Len(feedbackDocs) :
        \A k \in 1..Len(entries(feedbackDocs[n])) :
            \A i \in 1..Len(resultItems(container)) :
                entries(feedbackDocs[n])[k].value = resultItems(container)[i].result.score
                    => entries(feedbackDocs[n])[k].label = resultItems(container)[i].text

\* C14: a call of generateEmbedding that succeeded returned a flat vector of
\* numbers whose length is the dimension configured for its model.
C14_VectorOfConfiguredDimension ==
    \A c \in CallIds :
        calls[c].pc = "done" =>
            /\ calls[c].result.kind = "array"
            /\ calls[c].result.flat
            /\ calls[c].result.length = MODEL_CONFIGS[calls[c].modelKey].dimension

\* C15: after every handler of the search form (change of model or record
\* level, edit of search_verses, verse toggle, Select All, Clear) the Search
\* button is enabled exactly when the selected pair is in the compatibility
\* matrix and search_verses parses as a non-empty JSON array.
C15_EnabledIffPairAndVerses ==
    ~searchButton.disabled <=> (pairPermitted /\ fieldIsNonEmptyArray)

C15_EnabledAfterSelection ==
    /\ ~searchButton.disabled
    /\ selectedVerses # <<>>
    /\ pairPermitted /\ fieldIsNonEmptyArray

\* C18: when 'ended' is dispatched while visual i is current, the page moves
\* to the smallest j > i whose visual has an audio file, the player holds
\* that file, and playback starts at that visual's start_at (0 when it has
\* none): at once when the metadata of the file is there, and with the
\* 'loadedmetadata' event otherwise.  When there is no such j, the current
\* visual and the source stay and the player stays stopped as the end of the
\* playback left it.
laterWithAudio ==
    {j \in (currentVisualIndex + 1)..(Len(textVisuals) - 1) :
        textVisuals[j + 1].audio_file # ""}
startsAt(audio, visual) ==
    LET started == IF audio.readyState >= 1 THEN audio ELSE afterMetadata(audio)
    IN /\ audio.src = visual.audio_file
       /\ ~started.paused
       /\ started.currentTime = (IF visual.start_at = <<>> THEN 0
                                 ELSE visual.start_at[1])
C18_EndedMovesToNextAudio ==
    [][Ended =>
         IF laterWithAudio = {}
         THEN /\ currentVisualIndex' = currentVisualIndex
              /\ audioPlayer'.src = audioPlayer.src
              /\ audioPlayer'.currentTime = audioPlayer.currentTime
              /\ audioPlayer'.paused
         ELSE /\ currentVisualIndex' \in laterWithAudio
              /\ \A j \in laterWithAudio : currentVisualIndex' <= j
              /\ startsAt(audioPlayer', textVisuals[currentVisualIndex' + 1])]_vars

\* the player has moved past the visual without audio to the third visual,
\* whose file was loaded already, and plays it from its start_at
C18_SkippedVisualWithoutAudio ==
    /\ currentVisualIndex = 2
    /\ audioPlayer.src = "a.mp3"
    /\ ~audioPlayer.paused
    /\ audioPlayer.currentTime = 1
    /\ audioContainer = "flex"

\* C19: a selection of another visual while the audio is playing leaves the
\* source, the position and the playing state of the player as they are;
\* while it is paused, the player takes the file of the selected visual.
selectsAnother ==
    \E i \in 0..(Len(textVisuals) - 1) :
        i # currentVisualIndex /\ SelectVisual(i)
C19_PlayingAudioKeptOnSelect ==
    [][selectsAnother =>
         IF ~audioPlayer.paused
         THEN /\ audioPlayer'.src = audioPlayer.src
              /\ audioPlayer'.currentTime = audioPlayer.currentTime
              /\ audioPlayer'.paused = audioPlayer.paused
         ELSE textVisuals[currentVisualIndex' + 1].audio_file # "" =>
                 audioPlayer'.src = textVisuals[currentVisualIndex' + 1].audio_file]_vars

\* the fourth visual is shown while the file of the first goes on playing
C19_OtherVisualWhilePlaying ==
    /\ currentVisualIndex = 3
    /\ audioPlayer.src = "a.mp3"
    /\ ~audioPlayer.paused
    /\ audioPlayer.readyState >= 1
    /\ audioPlayer.currentTime = 1

\* C20: the left panel and the right panel are never both hidden.
C20_NeverBothPanelsHidden ==
    ~(leftPanel.display = "none" /\ rightPanel.display = "none")

\* C16: no two documents of SearchFeedback belong to the same search.
C16_OneDocumentPerSearch ==
    \A m, n \in 1..Len(feedbackDocs) :
        m # n => feedbackDocs[m].search # feedbackDocs[n].search

\* C17: whenever a click on the submit button would submit, each of the
\* first min(5, n) results has a rating that is not blank.
C17_SubmitOnlyWhenRated ==
    (submitBtn.handler /\ submitGuard(submitBtn, isSubmitting, feedbackSubmitted))
        => \A index \in 0..(Min(5, Len(currentResults)) - 1) :
              index \in DOMAIN resultRatings /\ resultRatings[index] # <<>>

\* the groups a returned string is made of, read from left to right
RECURSIVE readGroups(_)
readGroups(text) ==
    IF Len(text) < 3 THEN <<>>
    ELSE IF Len(text) >= 5 /\ text[4] = "-"
    THEN <<[chapter |-> text[1], first |-> text[3], last |-> text[5],
            range |-> TRUE]>>
         \o readGroups(SubSeq(text, 7, Len(text)))
    ELSE <<[chapter |-> text[1], first |-> text[3], last |-> text[3],
            range |-> FALSE]>>
         \o readGroups(SubSeq(text, 5, Len(text)))
\* the maximal runs of consecutive verse numbers within one chapter
maximalRuns(verses) ==
    {r \in [chapter : {v.chapter : v \in verses},
            first : {v.verse : v \in verses},
            last : {v.verse : v \in verses}] :
        /\ r.first <= r.last
        /\ \A n \in r.first..r.last : Verse(r.chapter, n) \in verses
        /\ Verse(r.chapter, r.first - 1) \notin verses
        /\ Verse(r.chapter, r.last + 1) \notin verses}
orderings(list) ==
    {l \in [1..Len(list) -> Range(list)] : Range(l) = Range(list)}

\* C21: the string formatVerses returned for a list of distinct verses is
\* the one it returns for every ordering of the list, and it is made of
\* exactly the maximal runs of consecutive verses of a chapter, each once,
\* a single verse as 'c:v' and a longer run as 'c:first-last', in ascending
\* (chapter, verse) order.
C21_FormatVersesCanonical ==
    [][FormatVerses =>
         LET groups == readGroups(formatted')
             runs == maximalRuns(Range(versesStr))
         IN /\ \A l \in orderings(versesStr) : formatVerses(l) = formatted'
            /\ Len(groups) = Cardinality(runs)
            /\ \A k \in 1..Len(groups) :
                  /\ [chapter |-> groups[k].chapter, first |-> groups[k].first,
                      last |-> groups[k].last] \in runs
                  /\ groups[k].range <=> groups[k].first < groups[k].last
            /\ \A k \in 1..(Len(groups) - 1) :
                  \/ groups[k].chapter < groups[k + 1].chapter
                  \/ /\ groups[k].chapter = groups[k + 1].chapter
                     /\ groups[k].last < groups[k + 1].first]_vars

\* three verses given out of order come back as a run and a single verse
C21_RunAndSingleOutOfOrder ==
    /\ versesStr = <<Verse(2, 1), Verse(1, 2), Verse(1, 1)>>
    /\ formatted = <<1, ":", 1, "-", 2, ", ", 2, ":", 1>>

shownVerses == Range(currentVerses)
isSelectedNow(v) == verseKey(v.chapter, v.verse) \in Range(selectedVerses)
isSelectedNext(v) == verseKey(v.chapter, v.verse) \in Range(selectedVerses')
knownVerses ==
    UNION {Range(textVisuals[n].verses) : n \in 1..Len(textVisuals)}
        \cup selectedSet

\* C22: a click on Select All deselects the verses of the shown visual when
\* all of them are selected and selects all of them otherwise; every other
\* verse keeps its selection, and the verses selected elsewhere are in the
\* search_verses field afterwards.
C22_SelectAllOnlyShownVisual ==
    [][SelectAllVerses =>
         LET allSelected == \A v \in shownVerses : isSelectedNow(v)
         IN /\ \A v \in shownVerses : isSelectedNext(v) <=> ~allSelected
            /\ \A v \in knownVerses \ shownVerses :
                  /\ isSelectedNext(v) <=> isSelectedNow(v)
                  /\ isSelectedNow(v) =>
                        /\ JSONparse(search_verses').ok
                        /\ v \in Range(JSONparse(search_verses').value)]_vars

\* both verses of the first visual are selected while the verse selected in
\* the second visual is still selected and in the field
C22_OtherVisualKeptSelected ==
    /\ currentVisualIndex = 0
    /\ \A i \in 1..Len(checked) : checked[i]
    /\ selectedVerses = <<verseKey(2, 1), verseKey(1, 1), verseKey(1, 2)>>
    /\ search_verses = JSONstringify(<<Verse(1, 1), Verse(1, 2), Verse(2, 1)>>)

\* C23: what a settled search has put on the page (the results, the
\* 'Searching for' text, currentResults) is of the search that was started
\* last.
C23_ShownIsLatestSearch ==
    shownSearch # 0 => shownSearch = searchSeq

====
